---- MODULE Spec2Model ----
(***************************************************************************)
(* Model of scripts/data_cleaning.py: the movie data-cleaning pipeline.    *)
(*                                                                         *)
(* A DataFrame is a record                                                 *)
(*   [columns, dtypes, index, rows]                                        *)
(* columns : sequence of column names (a name is a sequence of characters) *)
(* dtypes  : sequence of "int64" | "float64" | "object", one per column    *)
(* index   : sequence of row labels (pandas keeps them when rows go)       *)
(* rows    : sequence of rows, a row a sequence of cells, one per column   *)
(*                                                                         *)
(* A cell is a record [k, n, d, r, s]:                                     *)
(*   k = "nan"  a missing value (NaN)                                      *)
(*   k = "str"  the text s (a sequence of characters)                      *)
(*   k = "num"  the number n / (d * sqrt(r)); d is 1 or 2 and r is 1 for   *)
(*              every number before scale_features (integers and the      *)
(*              half-integers a median of integers produces), r is the     *)
(*              radicand of the standard deviation after it.               *)
(***************************************************************************)
EXTENDS Integers, Sequences, FiniteSets, TLC

VARIABLES source, pc, df, calls, err, output

vars == <<source, pc, df, calls, err, output>>

(***************************************************************************)
(* Characters and texts                                                    *)
(***************************************************************************)

\* The characters of the model in ASCII order (the order Python compares by).
Ascii ==
    << "\t", " ", "!", "(", ")", ",", "-", ".", "/",
       "0", "1", "2", "3", "4", "5", "6", "7", "8", "9",
       "A", "B", "C", "D", "E", "F", "G", "H", "I", "J", "K", "L", "M",
       "N", "O", "P", "Q", "R", "S", "T", "U", "V", "W", "X", "Y", "Z",
       "_",
       "a", "b", "c", "d", "e", "f", "g", "h", "i", "j", "k", "l", "m",
       "n", "o", "p", "q", "r", "s", "t", "u", "v", "w", "x", "y", "z" >>

Ord(c) == CHOOSE i \in 1..Len(Ascii) : Ascii[i] = c

DigitChars == << "0", "1", "2", "3", "4", "5", "6", "7", "8", "9" >>

IsDigit(c) == \E i \in 1..10 : DigitChars[i] = c

DigitVal(c) == (CHOOSE i \in 1..10 : DigitChars[i] = c) - 1

IsUpperLetter(c) == Ord("A") <= Ord(c) /\ Ord(c) <= Ord("Z")

IsLowerLetter(c) == Ord("a") <= Ord(c) /\ Ord(c) <= Ord("z")

\* \w of a Python regular expression: letters, digits and the underscore.
IsWord(c) == IsUpperLetter(c) \/ IsLowerLetter(c) \/ IsDigit(c) \/ c = "_"

IsSpace(c) == c \in {" ", "\t"}

Range(f) == {f[i] : i \in DOMAIN f}

\* All sequences over S of length at most n.
SeqsUpTo(S, n) == UNION {[1..m -> S] : m \in 0..n}

\* The elements of seq at the positions K, in order.
Pick(seq, K) ==
    [j \in 1..Cardinality(K) |->
        seq[CHOOSE x \in K : Cardinality({y \in K : y < x}) = j - 1]]

\* str.strip(): leading and trailing whitespace removed.
Strip(t) ==
    LET ink == {i \in 1..Len(t) : ~IsSpace(t[i])}
    IN  IF ink = {} THEN << >>
        ELSE LET lo == CHOOSE i \in ink : \A j \in ink : i <= j
                 hi == CHOOSE i \in ink : \A j \in ink : j <= i
             IN  SubSeq(t, lo, hi)

UpperChar(c) == IF IsLowerLetter(c) THEN Ascii[Ord(c) - Ord("a") + Ord("A")] ELSE c

\* str.upper()
Upper(t) == [i \in 1..Len(t) |-> UpperChar(t[i])]

\* str.replace(a, b) for single characters a, b
Replace(t, a, b) == [i \in 1..Len(t) |-> IF t[i] = a THEN b ELSE t[i]]

\* A faulty deletion that C10 excludes: only the first non-word character
\* goes (a replace limited to one occurrence).
RemoveNonWordFirstOnly(t) ==
    LET bad == {i \in 1..Len(t) : ~IsWord(t[i])}
    IN  IF bad = {} THEN t
        ELSE Pick(t, (1..Len(t)) \ {CHOOSE i \in bad : \A j \in bad : i <= j})

\* str.replace(r'[^\w_]', '', regex=True): every non-word character deleted.
RemoveNonWord(t) == Pick(t, {i \in 1..Len(t) : IsWord(t[i])})

\* The chain of string operations clean_column_names applies to one name.
CleanName(t) ==
    RemoveNonWord(Replace(Replace(Upper(Strip(t)), " ", "_"), "-", "_"))

EndsWith(t, suffix) ==
    /\ Len(t) >= Len(suffix)
    /\ SubSeq(t, Len(t) - Len(suffix) + 1, Len(t)) = suffix

(***************************************************************************)
(* Cells                                                                   *)
(***************************************************************************)

NaN == [k |-> "nan", n |-> 0, d |-> 1, r |-> 1, s |-> << >>]

Str(t) == [k |-> "str", n |-> 0, d |-> 1, r |-> 1, s |-> t]

Number(n, d, r) == [k |-> "num", n |-> n, d |-> d, r |-> r, s |-> << >>]

IsNa(c) == c.k = "nan"

\* A number before scaling, in halves: n/d = Halves/2.
Halves(c) == IF c.d = 1 THEN 2 * c.n ELSE c.n

FromHalves(h) == IF h % 2 = 0 THEN Number(h \div 2, 1, 1) ELSE Number(h, 2, 1)

(***************************************************************************)
(* DataFrames                                                              *)
(***************************************************************************)

NRows(t) == Len(t.rows)

NCols(t) == Len(t.columns)

Has(t, name) == \E j \in 1..NCols(t) : t.columns[j] = name

Loc(t, name) == CHOOSE j \in 1..NCols(t) : t.columns[j] = name

\* df[col] as the sequence of its cells
Column(t, j) == [i \in 1..NRows(t) |-> t.rows[i][j]]

IsNumericDtype(dt) == dt \in {"int64", "float64"}

\* df[col] = cells (the column replaced in place, with its new dtype)
SetColumn(t, j, cells, dt) ==
    [t EXCEPT !.dtypes[j] = dt,
              !.rows = [i \in 1..NRows(t) |-> [t.rows[i] EXCEPT ![j] = cells[i]]]]

\* df[name] = cells for a name the frame does not have yet (appended last)
AddColumn(t, name, cells, dt) ==
    [t EXCEPT !.columns = Append(t.columns, name),
              !.dtypes = Append(t.dtypes, dt),
              !.rows = [i \in 1..NRows(t) |-> Append(t.rows[i], cells[i])]]

\* The frame with only the columns at the positions J
KeepColumns(t, J) ==
    [t EXCEPT !.columns = Pick(t.columns, J),
              !.dtypes = Pick(t.dtypes, J),
              !.rows = [i \in 1..NRows(t) |-> Pick(t.rows[i], J)]]

\* The frame with only the rows at the positions K (labels kept)
KeepRows(t, K) ==
    [t EXCEPT !.index = Pick(t.index, K), !.rows = Pick(t.rows, K)]

\* What a stage hands back: the frame it returns, or the exception it raises.
Return(t) == [error |-> "none", df |-> t]

Raise(e, t) == [error |-> e, df |-> t]

(***************************************************************************)
(* Column names of the code                                                *)
(***************************************************************************)

MOVIES == << "M", "O", "V", "I", "E", "S" >>

YEAR == << "Y", "E", "A", "R" >>

GENRE == << "G", "E", "N", "R", "E" >>

ONE_LINE == << "O", "N", "E", "-", "L", "I", "N", "E" >>

STARS == << "S", "T", "A", "R", "S" >>

RATING == << "R", "A", "T", "I", "N", "G" >>

VOTES == << "V", "O", "T", "E", "S" >>

RunTime == << "R", "u", "n", "T", "i", "m", "e" >>

Gross == << "G", "r", "o", "s", "s" >>

YEAR_CLEANED == YEAR \o << "_", "C", "L", "E", "A", "N", "E", "D" >>

ENCODED_SUFFIX == << "_", "E", "N", "C", "O", "D", "E", "D" >>

Unknown == << "U", "n", "k", "n", "o", "w", "n" >>

\* potential_num_cols
PotentialNumCols == {RATING, VOTES, RunTime, Gross}

\* cat_cols
CatCols == {MOVIES, YEAR, GENRE, ONE_LINE, STARS}

(***************************************************************************)
(* Numbers and their texts                                                 *)
(***************************************************************************)

RECURSIVE ParseInt(_)
ParseInt(t) ==
    IF t = << >> THEN 0
    ELSE 10 * ParseInt(SubSeq(t, 1, Len(t) - 1)) + DigitVal(t[Len(t)])

RECURSIVE IntText(_)
IntText(n) ==
    IF n < 10 THEN << DigitChars[n + 1] >>
    ELSE IntText(n \div 10) \o << DigitChars[(n % 10) + 1] >>

IsIntText(t) == Len(t) >= 1 /\ \A i \in 1..Len(t) : IsDigit(t[i])

\* A decimal with one fractional digit 0 or 5, the texts str() gives the
\* float64 numbers of the model.
IsHalfText(t) ==
    /\ Len(t) >= 3
    /\ t[Len(t) - 1] = "."
    /\ t[Len(t)] \in {"0", "5"}
    /\ IsIntText(SubSeq(t, 1, Len(t) - 2))

IsNumberText(t) == IsIntText(t) \/ IsHalfText(t)

\* The number a numeric text denotes.
ParseNumber(t) ==
    IF IsIntText(t) THEN Number(ParseInt(t), 1, 1)
    ELSE FromHalves(2 * ParseInt(SubSeq(t, 1, Len(t) - 2))
                    + (IF t[Len(t)] = "5" THEN 1 ELSE 0))

\* str(x) of a float: "7.0", "7.5"
FloatText(c) ==
    IntText(Halves(c) \div 2) \o << "." >>
        \o (IF Halves(c) % 2 = 0 THEN << "0" >> ELSE << "5" >>)

\* Series.astype(str) on one cell of a column of dtype dt.
AsTypeStr(dt, c) ==
    CASE c.k = "nan" -> << "n", "a", "n" >>
      [] c.k = "str" -> c.s
      [] OTHER -> IF dt = "int64" THEN IntText(c.n) ELSE FloatText(c)

\* pd.to_numeric(..., errors='coerce') on one cell: a text that is no number
\* becomes NaN.
ToNumericCell(c) ==
    CASE c.k = "nan" -> NaN
      [] c.k = "num" -> c
      [] OTHER -> IF IsNumberText(c.s) THEN ParseNumber(c.s) ELSE NaN

\* The dtype pd.to_numeric gives a column: int64 when every cell is an
\* integer, float64 when one is missing or a float.
NumericDtype(before, after) ==
    IF \A i \in 1..Len(after) :
          /\ after[i].k = "num"
          /\ \/ before[i].k = "str" /\ IsIntText(before[i].s)
             \/ before[i].k = "num" /\ before[i].d = 1
    THEN "int64" ELSE "float64"

\* The k-th smallest of the integers vs (a sequence), k in 1..Len(vs)
Kth(vs, k) ==
    CHOOSE x \in Range(vs) :
        /\ Cardinality({i \in 1..Len(vs) : vs[i] < x}) < k
        /\ k <= Cardinality({i \in 1..Len(vs) : vs[i] <= x})

\* The non-missing numbers of a column, in halves.
Observed(cells) ==
    LET K == {i \in 1..Len(cells) : ~IsNa(cells[i])}
        kept == Pick(cells, K)
    IN  [i \in 1..Len(kept) |-> Halves(kept[i])]

\* Series.median(): over the non-missing values, NaN when there is none.
\* (The values are integers here, so the mean of the middle two is a
\* half-integer at most.)
Median(cells) ==
    LET vs == Observed(cells)
        m == Len(vs)
    IN  IF m = 0 THEN NaN
        ELSE IF m % 2 = 1 THEN FromHalves(Kth(vs, (m + 1) \div 2))
        ELSE FromHalves((Kth(vs, m \div 2) + Kth(vs, m \div 2 + 1)) \div 2)

\* Series.fillna(value)
FillNa(cells, value) ==
    [i \in 1..Len(cells) |-> IF IsNa(cells[i]) THEN value ELSE cells[i]]

(***************************************************************************)
(* load_data                                                               *)
(***************************************************************************)

\* Texts pd.read_csv reads as missing (its default na_values, those the
\* model's alphabet can spell).
NaTokens ==
    { << >>, << "n", "a", "n" >>, << "N", "a", "N" >>, << "N", "A" >>,
      << "N", "/", "A" >>, << "n", "/", "a" >> }

\* pd.read_csv's reading of one column of texts.
ReadColumn(texts) ==
    LET present == {i \in 1..Len(texts) : texts[i] \notin NaTokens}
    IN  IF Len(texts) = 0 THEN [dtype |-> "object", cells |-> << >>]
        ELSE IF \A i \in present : IsNumberText(texts[i])
        THEN [dtype |-> IF present = 1..Len(texts)
                            /\ \A i \in present : IsIntText(texts[i])
                        THEN "int64" ELSE "float64",
              cells |-> [i \in 1..Len(texts) |->
                            IF i \in present THEN ParseNumber(texts[i]) ELSE NaN]]
        ELSE [dtype |-> "object",
              cells |-> [i \in 1..Len(texts) |->
                            IF i \in present THEN Str(texts[i]) ELSE NaN]]

\* pd.read_csv(path, low_memory=False): the header names the columns, the
\* rows are labelled 0..n-1.
ReadCsv(src) ==
    LET m == Len(src.header)
        n == Len(src.lines)
        col(j) == ReadColumn([i \in 1..n |-> src.lines[i][j]])
    IN  [columns |-> src.header,
         dtypes |-> [j \in 1..m |-> col(j).dtype],
         index |-> [i \in 1..n |-> i - 1],
         rows |-> [i \in 1..n |-> [j \in 1..m |-> col(j).cells[i]]]]

EmptyFrame == [columns |-> << >>, dtypes |-> << >>, index |-> << >>, rows |-> << >>]

LoadData(src) ==
    IF ~src.exists THEN Raise("FileNotFoundError", EmptyFrame)
    ELSE Return(ReadCsv(src))

(***************************************************************************)
(* clean_column_names                                                      *)
(***************************************************************************)

CleanColumnNames(t) ==
    Return([t EXCEPT !.columns = [j \in 1..NCols(t) |-> CleanName(t.columns[j])]])

(***************************************************************************)
(* handle_missing_values                                                   *)
(***************************************************************************)

\* df.dropna(axis=1, how='all'): columns with no present cell are dropped.
DropAllNaColumns(t) ==
    KeepColumns(t, {j \in 1..NCols(t) : \E i \in 1..NRows(t) : ~IsNa(t.rows[i][j])})

\* Lines 32-37: the coercion of one numeric column.  VOTES goes through
\* astype(str) and loses its commas first.
CoerceColumn(name, dt, cells) ==
    LET texts == [i \in 1..Len(cells) |->
                    IF name = VOTES
                    THEN Str(Pick(AsTypeStr(dt, cells[i]),
                                  {p \in 1..Len(AsTypeStr(dt, cells[i])) :
                                      AsTypeStr(dt, cells[i])[p] # ","}))
                    ELSE cells[i]]
        nums == [i \in 1..Len(cells) |-> ToNumericCell(texts[i])]
    IN  [dtype |-> NumericDtype(texts, nums), cells |-> nums]

\* Lines 39-41: the gaps of a numeric column filled with its median.
FillMedian(col) ==
    [dtype |-> col.dtype, cells |-> FillNa(col.cells, Median(col.cells))]

\* Lines 43-48: the gaps of a categorical column filled with 'Unknown'.
FillUnknown(dt, cells) ==
    IF \A i \in 1..Len(cells) : IsNa(cells[i])
    THEN [dtype |-> "object", cells |-> [i \in 1..Len(cells) |-> Str(Unknown)]]
    ELSE [dtype |-> IF \E i \in 1..Len(cells) : IsNa(cells[i]) THEN "object" ELSE dt,
          cells |-> FillNa(cells, Str(Unknown))]

HandleMissingValues(t) ==
    LET t1 == [t EXCEPT !.columns = [j \in 1..NCols(t) |-> Strip(t.columns[j])]]
        t2 == DropAllNaColumns(t1)
        new(j) ==
            IF t2.columns[j] \in PotentialNumCols
            THEN FillMedian(CoerceColumn(t2.columns[j], t2.dtypes[j], Column(t2, j)))
            ELSE IF t2.columns[j] \in CatCols
            THEN FillUnknown(t2.dtypes[j], Column(t2, j))
            ELSE [dtype |-> t2.dtypes[j], cells |-> Column(t2, j)]
    IN  Return([t2 EXCEPT
                  !.dtypes = [j \in 1..NCols(t2) |-> new(j).dtype],
                  !.rows = [i \in 1..NRows(t2) |->
                               [j \in 1..NCols(t2) |-> new(j).cells[i]]]])

(***************************************************************************)
(* extract_year_info                                                       *)
(***************************************************************************)

\* The 4 of the patterns r'(\d{4})' and r'\((\d{4})'
YearDigits == 4

DigitsAt(t, i) ==
    /\ i >= 1
    /\ i + YearDigits - 1 <= Len(t)
    /\ \A p \in i..(i + YearDigits - 1) : IsDigit(t[p])

\* re.search(r'(\d{4})', t): group 1 of the leftmost match, NaN without one.
ExtractDigits(t) ==
    LET at == {i \in 1..Len(t) : DigitsAt(t, i)}
    IN  IF at = {} THEN NaN
        ELSE LET i == CHOOSE i \in at : \A j \in at : i <= j
             IN  Str(SubSeq(t, i, i + YearDigits - 1))

\* re.search(r'\((\d{4})', t): the 4 digits right after the leftmost "(" that
\* has them, NaN without one.
ExtractParenDigits(t) ==
    LET at == {i \in 1..Len(t) : t[i] = "(" /\ DigitsAt(t, i + 1)}
    IN  IF at = {} THEN NaN
        ELSE LET i == CHOOSE i \in at : \A j \in at : i <= j
             IN  Str(SubSeq(t, i + 1, i + YearDigits))

\* The column label Series.str.extract gives the only group of a pattern
\* with one unnamed group: the integer 0.
ExtractLabel == << "0" >>

\* Series.str.extract(pat) (expand=True): a one-column DataFrame on the
\* labels of the series, holding what the pattern captured in each text.
StrExtract(labels, captured) ==
    [columns |-> << ExtractLabel >>,
     index |-> labels,
     values |-> captured]

\* The value a frame holds for column name at row label, NaN when it has no
\* such column or no such row (pandas aligns a DataFrame value on both axes).
Aligned(frame, name, label) ==
    IF /\ name \in Range(frame.columns)
       /\ \E p \in 1..Len(frame.index) : frame.index[p] = label
    THEN frame.values[CHOOSE p \in 1..Len(frame.index) : frame.index[p] = label]
    ELSE NaN

\* df[name] = frame, line 94: a one-column DataFrame assigned to one key is
\* assigned as its only column, aligned on the row labels.
SetItemFrame(t, name, frame) ==
    LET cells == [i \in 1..NRows(t) |-> Aligned(frame, frame.columns[1], t.index[i])]
    IN  IF Has(t, name) THEN SetColumn(t, Loc(t, name), cells, "object")
        ELSE AddColumn(t, name, cells, "object")

\* df.loc[rows, name] = frame, line 99: the DataFrame value is aligned on
\* the column label too.
LocSetFrame(t, K, name, frame) ==
    LET j == Loc(t, name)
        cells == [i \in 1..NRows(t) |->
                    IF i \in K THEN Aligned(frame, name, t.index[i])
                    ELSE t.rows[i][j]]
    IN  SetColumn(t, j, cells,
                  IF \E i \in 1..NRows(t) : cells[i].k = "str"
                  THEN "object" ELSE t.dtypes[j])

\* df[name] = pd.to_numeric(df[name], errors='coerce')
ToNumericColumn(t, name) ==
    LET j == Loc(t, name)
        nums == [i \in 1..NRows(t) |-> ToNumericCell(t.rows[i][j])]
    IN  SetColumn(t, j, nums, NumericDtype(Column(t, j), nums))

ExtractYearInfo(t) ==
    IF ~Has(t, YEAR) THEN Return(t)
    ELSE
      LET jy == Loc(t, YEAR)
          primary == StrExtract(t.index,
                        [i \in 1..NRows(t) |->
                            ExtractDigits(AsTypeStr(t.dtypes[jy], t.rows[i][jy]))])
          t1 == ToNumericColumn(SetItemFrame(t, YEAR_CLEANED, primary), YEAR_CLEANED)
          missing_years == {i \in 1..NRows(t1) : IsNa(t1.rows[i][Loc(t1, YEAR_CLEANED)])}
      IN  IF missing_years = {} THEN Return(t1)
          ELSE IF ~Has(t1, MOVIES) THEN Raise("KeyError", t1)
          ELSE
            LET jm == Loc(t1, MOVIES)
                sub == KeepRows(t1, missing_years)
                fallback == StrExtract(sub.index,
                              [i \in 1..NRows(sub) |->
                                  ExtractParenDigits(
                                      AsTypeStr(sub.dtypes[jm], sub.rows[i][jm]))])
            IN  Return(ToNumericColumn(
                         LocSetFrame(t1, missing_years, YEAR_CLEANED, fallback),
                         YEAR_CLEANED))

(***************************************************************************)
(* remove_duplicates                                                       *)
(***************************************************************************)

\* A faulty deduplication that C7 excludes: keep='last', the last of equal
\* rows survives.
RemoveDuplicatesKeepLast(t) ==
    Return(KeepRows(t, {i \in 1..NRows(t) :
                          ~\E h \in (i + 1)..NRows(t) : t.rows[h] = t.rows[i]}))

\* df.drop_duplicates(): a row equal to an earlier one in every column goes
\* (NaN counts as equal to NaN); the rest keep their order and labels.
RemoveDuplicates(t) ==
    Return(KeepRows(t, {i \in 1..NRows(t) :
                          ~\E h \in 1..(i - 1) : t.rows[h] = t.rows[i]}))

(***************************************************************************)
(* remove_outliers                                                         *)
(***************************************************************************)

\* Four times Series.quantile(q/4) of the integers vs (linear interpolation
\* between the order statistics around position (n-1)*q/4), q in {1, 3}.
Quantile4(vs, q) ==
    LET pos == (Len(vs) - 1) * q
        lo == Kth(vs, pos \div 4 + 1)
        hi == Kth(vs, IF pos % 4 = 0 THEN pos \div 4 + 1 ELSE pos \div 4 + 2)
    IN  4 * lo + (pos % 4) * (hi - lo)

\* Lines 75-80 for one column: the labels of df with the truth of
\*   (df[col] >= Q1 - 1.5 * IQR) & (df[col] <= Q3 + 1.5 * IQR),
\* or no constraint when IQR > 0 is false (IQR 0, or NaN for a column with
\* no number).  The numbers are compared in eighths of a half.
HasSpread(cells) ==
    LET vs == Observed(cells)
    IN  Len(vs) > 0 /\ Quantile4(vs, 3) - Quantile4(vs, 1) > 0

InFence(cells, c) ==
    LET vs == Observed(cells)
        Q1 == Quantile4(vs, 1)
        Q3 == Quantile4(vs, 3)
        IQR == Q3 - Q1
    IN  /\ ~IsNa(c)
        /\ 8 * Halves(c) >= 2 * Q1 - 3 * IQR
        /\ 8 * Halves(c) <= 2 * Q3 + 3 * IQR

\* A boolean Series: a function from row labels to truth values.
ColMask(t, j) ==
    [l \in Range(t.index) |->
        InFence(Column(t, j), t.rows[CHOOSE i \in 1..NRows(t) : t.index[i] = l][j])]

\* pd.Series([True] * len(df)): labelled 0..len(df)-1
AllTrue(t) == [l \in 0..(NRows(t) - 1) |-> TRUE]

\* A faulty accumulation that C3 excludes: mask = col_mask, the fence of
\* the last column alone decides.
LastMaskOnly(a, b) == b

\* mask & col_mask: the two are aligned on the union of their labels, and a
\* label one of them lacks gives False.
AndMask(a, b) ==
    [l \in (DOMAIN a) \cup (DOMAIN b) |->
        l \in DOMAIN a /\ l \in DOMAIN b /\ a[l] /\ b[l]]

RECURSIVE FoldMask(_, _, _)
FoldMask(t, J, mask) ==
    IF J = {} THEN mask
    ELSE LET j == CHOOSE j \in J : \A h \in J : j <= h
         IN  FoldMask(t, J \ {j},
                      IF HasSpread(Column(t, j)) THEN AndMask(mask, ColMask(t, j))
                      ELSE mask)

RemoveOutliers(t) ==
    LET numeric_cols == {j \in 1..NCols(t) : IsNumericDtype(t.dtypes[j])}
        mask == FoldMask(t, numeric_cols, AllTrue(t))
    IN  IF numeric_cols = {} THEN Return(t)
        \* df[mask]: a boolean Series that lacks a label of df cannot index it
        ELSE IF \E i \in 1..NRows(t) : t.index[i] \notin DOMAIN mask
        THEN Raise("IndexingError", t)
        ELSE Return(KeepRows(t, {i \in 1..NRows(t) : mask[t.index[i]]}))

(***************************************************************************)
(* encode_categorical                                                      *)
(***************************************************************************)

\* a < b for texts, as Python compares strings
RECURSIVE TextLess(_, _)
TextLess(a, b) ==
    IF b = << >> THEN FALSE
    ELSE IF a = << >> THEN TRUE
    ELSE IF a[1] # b[1] THEN Ord(a[1]) < Ord(b[1])
    ELSE TextLess(Tail(a), Tail(b))

\* Series.nunique(): the distinct values that are not missing
NUnique(cells) == Cardinality({cells[i] : i \in {i \in 1..Len(cells) : ~IsNa(cells[i])}})

\* LabelEncoder().fit_transform(texts): a text's code is its rank among the
\* sorted distinct texts.
FitTransform(texts) ==
    [i \in 1..Len(texts) |->
        Number(Cardinality({u \in Range(texts) : TextLess(u, texts[i])}), 1, 1)]

\* The columns encode_categorical works on.
EncoderColumns(t) ==
    {j \in 1..NCols(t) : ~IsNumericDtype(t.dtypes[j]) /\ t.columns[j] # MOVIES}

\* A faulty test that C6 excludes: nunique() >= 1, a column of one value
\* is encoded too.
KeptWithOneValue(cells) == NUnique(cells) >= 1

\* if df[col].nunique() > 1
KeptByEncoder(cells) == NUnique(cells) > 1

EncodeCategorical(t) ==
    LET cat_cols == EncoderColumns(t)
        coded(j) == FitTransform([i \in 1..NRows(t) |-> AsTypeStr(t.dtypes[j], t.rows[i][j])])
        t1 == [t EXCEPT
                 !.dtypes = [j \in 1..NCols(t) |->
                                IF j \in cat_cols THEN "int64" ELSE t.dtypes[j]],
                 !.rows = [i \in 1..NRows(t) |-> [j \in 1..NCols(t) |->
                                IF j \in cat_cols THEN coded(j)[i] ELSE t.rows[i][j]]]]
    IN  Return(KeepColumns(t1, {j \in 1..NCols(t) :
                                  j \in cat_cols => KeptByEncoder(Column(t, j))}))

(***************************************************************************)
(* scale_features                                                          *)
(***************************************************************************)

RECURSIVE Sum(_)
Sum(vs) == IF vs = << >> THEN 0 ELSE vs[1] + Sum(Tail(vs))

\* A faulty scaler that C9 excludes: a standard deviation of 0 is divided
\* by as it is, and 0/0 is NaN.
StandardizeDividingByZero(cells) ==
    LET vs == Observed(cells)
        m == Len(vs)
        S == Sum(vs)
        Q == Sum([i \in 1..m |-> vs[i] * vs[i]])
    IN  [i \in 1..Len(cells) |->
            IF IsNa(cells[i]) \/ m * Q - S * S = 0 THEN NaN
            ELSE Number(m * Halves(cells[i]) - S, 1, m * Q - S * S)]

\* StandardScaler().fit_transform on one column: (x - mean) / std over the
\* non-missing values, NaN staying NaN; a standard deviation of 0 is
\* replaced by 1 (sklearn's _handle_zeros_in_scale).  With m values of sum S
\* and sum of squares Q, (x - S/m) / sqrt(Q/m - (S/m)^2) is
\* (m*x - S) / sqrt(m*Q - S*S).
Standardize(cells) ==
    LET vs == Observed(cells)
        m == Len(vs)
        S == Sum(vs)
        Q == Sum([i \in 1..m |-> vs[i] * vs[i]])
    IN  [i \in 1..Len(cells) |->
            IF IsNa(cells[i]) THEN NaN
            ELSE IF m * Q - S * S = 0 THEN Number(0, 1, 1)
            ELSE Number(m * Halves(cells[i]) - S, 1, m * Q - S * S)]

ColsToScale(t) ==
    {j \in 1..NCols(t) :
        IsNumericDtype(t.dtypes[j]) /\ ~EndsWith(t.columns[j], ENCODED_SUFFIX)}

ScaleFeatures(t) ==
    LET cols_to_scale == ColsToScale(t)
    IN  IF cols_to_scale = {} THEN Return(t)
        \* sklearn's check_array: "Found array with 0 sample(s)"
        ELSE IF NRows(t) = 0 THEN Raise("ValueError", t)
        ELSE Return([t EXCEPT
                !.dtypes = [j \in 1..NCols(t) |->
                               IF j \in cols_to_scale THEN "float64" ELSE t.dtypes[j]],
                !.rows = [i \in 1..NRows(t) |-> [j \in 1..NCols(t) |->
                               IF j \in cols_to_scale
                               THEN Standardize(Column(t, j))[i]
                               ELSE t.rows[i][j]]]])

(***************************************************************************)
(* main                                                                    *)
(***************************************************************************)

\* A faulty main that C8 excludes: the exception of a stage is recorded and
\* swallowed, and the run goes on with the frame it had.
CallSwallowingErrors(stage, res, next) ==
    /\ pc = stage
    /\ calls' = Append(calls, [stage |-> stage, arg |-> df])
    /\ df' = IF res.error = "none" THEN res.df ELSE df
    /\ pc' = next
    /\ err' = IF res.error = "none" THEN err ELSE res.error
    /\ UNCHANGED <<source, output>>

\* One call of main's try block: the stage is handed df; df becomes what it
\* returns, or its exception takes control to the except clause.
Call(stage, res, next) ==
    /\ pc = stage
    /\ calls' = Append(calls, [stage |-> stage, arg |-> df])
    /\ IF res.error = "none"
       THEN /\ df' = res.df
            /\ pc' = next
            /\ err' = err
       ELSE /\ df' = df
            /\ pc' = "except"
            /\ err' = res.error
    /\ UNCHANGED <<source, output>>

LoadDataStep == Call("load_data", LoadData(source), "clean_column_names")

CleanColumnNamesStep ==
    Call("clean_column_names", CleanColumnNames(df), "handle_missing_values")

HandleMissingValuesStep ==
    Call("handle_missing_values", HandleMissingValues(df), "extract_year_info")

ExtractYearInfoStep ==
    Call("extract_year_info", ExtractYearInfo(df), "remove_duplicates")

RemoveDuplicatesStep ==
    Call("remove_duplicates", RemoveDuplicates(df), "remove_outliers")

RemoveOutliersStep ==
    Call("remove_outliers", RemoveOutliers(df), "encode_categorical")

EncodeCategoricalStep ==
    Call("encode_categorical", EncodeCategorical(df), "scale_features")

ScaleFeaturesStep ==
    Call("scale_features", ScaleFeatures(df), "save_cleaned_data")

\* save_cleaned_data: df.to_csv(output_path, index=False)
SaveCleanedDataStep ==
    /\ pc = "save_cleaned_data"
    /\ calls' = Append(calls, [stage |-> "save_cleaned_data", arg |-> df])
    /\ output' = << [columns |-> df.columns, rows |-> df.rows] >>
    /\ pc' = "done"
    /\ UNCHANGED <<source, df, err>>

\* except Exception as e: print(...); raise
ExceptStep ==
    /\ pc = "except"
    /\ pc' = "raised"
    /\ UNCHANGED <<source, df, calls, err, output>>

(***************************************************************************)
(* The pipeline: one run of main on one input file                         *)
(***************************************************************************)

\* Most data rows of an input file
MaxRows == 3

\* Cell texts of an input file's first column: an empty cell, a number, a
\* title with a year
FirstTexts == { << >>, << "7" >>, << "(", "1", "9", "9", "9" >> }

\* Cell texts of its second column: an empty cell, a number, a number with a
\* thousands separator (no number to read_csv)
SecondTexts == { << >>, << "7" >>, << "1", ",", "9" >> }

\* Header rows of an input file, as the file spells them
Headers ==
    { << MOVIES, YEAR >>,
      << YEAR, RATING >>,
      << GENRE, Gross >>,
      << ONE_LINE, VOTES >>,
      << << " ", "S", "t", "a", "r", "s" >>, << "r", "a", "t", "i", "n", "g" >> >> }

Sources ==
    { [exists |-> TRUE, header |-> h, lines |-> l] :
        h \in Headers,
        l \in SeqsUpTo({ << a, b >> : a \in FirstTexts, b \in SecondTexts }, MaxRows) }
    \cup { [exists |-> FALSE, header |-> << >>, lines |-> << >>] }

Start(stage, t) ==
    /\ pc = stage
    /\ df = t
    /\ calls = << >>
    /\ err = "none"
    /\ output = << >>

Init ==
    /\ source \in Sources
    /\ Start("load_data", EmptyFrame)

Next ==
    \/ LoadDataStep
    \/ CleanColumnNamesStep
    \/ HandleMissingValuesStep
    \/ ExtractYearInfoStep
    \/ RemoveDuplicatesStep
    \/ RemoveOutliersStep
    \/ EncodeCategoricalStep
    \/ ScaleFeaturesStep
    \/ SaveCleanedDataStep
    \/ ExceptStep

Spec == Init /\ [][Next]_vars

(***************************************************************************)
(* The stages on their own: a run that starts at one stage, on a frame of  *)
(* the kind the earlier stages hand it                                     *)
(***************************************************************************)

\* The input file plays no part once load_data has returned.
Loaded == [exists |-> TRUE, header |-> << >>, lines |-> << >>]

\* A frame of n rows labelled 0..n-1
Frame(columns, dtypes, rows) ==
    [columns |-> columns, dtypes |-> dtypes,
     index |-> [i \in 1..Len(rows) |-> i - 1], rows |-> rows]

\* --- clean_column_names on a frame of one column, any name
MaxNameLen == 3

NameChars == {" ", "\t", "-", "!", "_", "a", "B"}

InitNames ==
    /\ source = Loaded
    /\ \E name \in SeqsUpTo(NameChars, MaxNameLen), c \in {NaN, Str(<< "a" >>)} :
          Start("clean_column_names", Frame(<< name >>, << "object" >>, << << c >> >>))

SpecNames == InitNames /\ [][CleanColumnNamesStep]_vars

\* --- remove_duplicates, then remove_outliers, on frames of two numeric
\* columns: RATING as handle_missing_values leaves it (no gap), RUNTIME as
\* read_csv read it (gaps stay: the handler knows no column of that name)
MaxOutlierRows == 4

RUNTIME == << "R", "U", "N", "T", "I", "M", "E" >>

OutlierCells ==
    { << a, b >> : a \in {Number(0, 1, 1), Number(1, 1, 1), Number(8, 1, 1)},
                   b \in {NaN, Number(0, 1, 1), Number(8, 1, 1)} }

InitOutliers ==
    /\ source = Loaded
    /\ \E n \in 1..MaxOutlierRows : \E rows \in [1..n -> OutlierCells] :
          Start("remove_duplicates",
                Frame(<< RATING, RUNTIME >>, << "float64", "float64" >>, rows))

NextOutliers == RemoveDuplicatesStep \/ RemoveOutliersStep \/ ExceptStep

SpecOutliers == InitOutliers /\ [][NextOutliers]_vars

\* --- extract_year_info on frames with a MOVIES and a YEAR column of texts
MaxYearRows == 2

TitleTexts ==
    { << "X", " ", "(", "2", "0", "1", "6", ")" >>,
      << "X", " ", "2", "0", "1", "6" >>,
      << "(", "2", "0", "1" >>,
      << "X" >> }

YearTexts ==
    { << "(", "2", "0", "1", "5", ")" >>,
      << "N", "/", "A" >>,
      << "2", "0", "1" >>,
      Unknown }

InitYear ==
    /\ source = Loaded
    /\ \E n \in 1..MaxYearRows :
       \E rows \in [1..n -> { << Str(a), Str(b) >> : a \in TitleTexts, b \in YearTexts }] :
          Start("extract_year_info",
                Frame(<< MOVIES, YEAR >>, << "object", "object" >>, rows))

SpecYear == InitYear /\ [][ExtractYearInfoStep]_vars

\* --- encode_categorical on frames without duplicate rows: the title, a
\* text column with gaps (ONE_LINE, which the handler does not know under
\* that name), a numeric column
MaxEncodeRows == 3

ONE_LINE_CLEANED == << "O", "N", "E", "_", "L", "I", "N", "E" >>

EncodeCells ==
    { << a, b, c >> : a \in {Str(<< "a" >>), Str(<< "b" >>)},
                      b \in {NaN, Str(<< "a" >>), Str(<< "B" >>)},
                      c \in {Number(0, 1, 1), Number(1, 1, 1)} }

InitEncode ==
    /\ source = Loaded
    /\ \E n \in 1..MaxEncodeRows : \E rows \in [1..n -> EncodeCells] :
          /\ \A i, h \in 1..n : i # h => rows[i] # rows[h]
          /\ Start("encode_categorical",
                   Frame(<< MOVIES, ONE_LINE_CLEANED, RATING >>,
                         << "object", "object", "float64" >>, rows))

SpecEncode == InitEncode /\ [][EncodeCategoricalStep]_vars

(***************************************************************************)
(* What the run has done so far                                            *)
(***************************************************************************)

Called(stage) == \E i \in 1..Len(calls) : calls[i].stage = stage

CallOf(stage) == CHOOSE i \in 1..Len(calls) : calls[i].stage = stage

\* The frame the stage was handed
Arg(stage) == calls[CallOf(stage)].arg

\* The stage raised: it is the last one called and control is in the except
\* clause or past it.
Raised(stage) ==
    Called(stage) /\ CallOf(stage) = Len(calls) /\ pc \in {"except", "raised"}

Returned(stage) == Called(stage) /\ ~Raised(stage)

\* The frame the stage returned: what the next stage was handed, or df
Result(stage) ==
    IF CallOf(stage) < Len(calls) THEN calls[CallOf(stage) + 1].arg ELSE df

\* The order of main's try block
StageOrder ==
    << "load_data", "clean_column_names", "handle_missing_values",
       "extract_year_info", "remove_duplicates", "remove_outliers",
       "encode_categorical", "scale_features", "save_cleaned_data" >>

(***************************************************************************)
(* The claims                                                              *)
(***************************************************************************)

\* C10: clean_column_names is idempotent on column names: the name it gives
\* a column is a name it would leave as it is (normalize(normalize(n)) =
\* normalize(n)); and it changes no row and no cell: the rows, their labels
\* and the dtypes are those of the frame it was handed.
C10_NormalizerIdempotent ==
    Returned("clean_column_names") =>
        LET a == Arg("clean_column_names")
            b == Result("clean_column_names")
        IN  /\ NCols(b) = NCols(a)
            /\ \A j \in 1..NCols(b) : CleanName(b.columns[j]) = b.columns[j]
            /\ b.rows = a.rows
            /\ b.index = a.index
            /\ b.dtypes = a.dtypes

\* C10's case: a name with leading whitespace, a hyphen and a lower-case
\* letter has been normalized.
C10_Witness ==
    /\ Returned("clean_column_names")
    /\ Arg("clean_column_names").columns[1] = << " ", "-", "a" >>
    /\ Result("clean_column_names").columns[1] = << "_", "A" >>

\* C7: after remove_duplicates no two rows are identical across all
\* columns; a row is removed exactly when an earlier row is identical to it;
\* the surviving rows keep their order, their labels and their cells.
C7_KeepFirst ==
    Returned("remove_duplicates") =>
        LET a == Arg("remove_duplicates")
            b == Result("remove_duplicates")
            \* the position in a of the row at position p of b
            from(p) == CHOOSE i \in 1..NRows(a) : a.index[i] = b.index[p]
        IN  /\ \A p, q \in 1..NRows(b) : p # q => b.rows[p] # b.rows[q]
            /\ \A i \in 1..NRows(a) :
                  (\E p \in 1..NRows(b) : b.index[p] = a.index[i])
                      <=> ~\E h \in 1..(i - 1) : a.rows[h] = a.rows[i]
            /\ \A p \in 1..NRows(b) :
                  /\ \E i \in 1..NRows(a) : a.index[i] = b.index[p]
                  /\ b.rows[p] = a.rows[from(p)]
            /\ \A p, q \in 1..NRows(b) : p < q => from(p) < from(q)
            /\ b.columns = a.columns

\* C7's case: the second of three rows repeated the first (a missing cell
\* included) and is gone, the first and third are kept.
C7_Witness ==
    /\ Returned("remove_duplicates")
    /\ NRows(Arg("remove_duplicates")) = 3
    /\ Arg("remove_duplicates").rows[1] = Arg("remove_duplicates").rows[2]
    /\ IsNa(Arg("remove_duplicates").rows[1][2])
    /\ Result("remove_duplicates").index = << 0, 2 >>

\* The columns of a frame that remove_outliers fences: numeric, with IQR > 0
FencedColumns(t) ==
    {j \in 1..NCols(t) : IsNumericDtype(t.dtypes[j]) /\ HasSpread(Column(t, j))}

\* Row i of t is inside the fence of every fenced column of t.
InsideAllFences(t, i) ==
    \A j \in FencedColumns(t) : InFence(Column(t, j), t.rows[i][j])

\* C3: after remove_outliers, every surviving row lies, on every numeric
\* column whose IQR over the pre-filter rows is nonzero, within
\* [Q1 - 1.5*IQR, Q3 + 1.5*IQR] of the pre-filter rows; a row that violates
\* the fence of any such column is removed; surviving rows are rows of the
\* input, unchanged.
C3_SurvivorsInsideFences ==
    Returned("remove_outliers") =>
        LET a == Arg("remove_outliers")
            b == Result("remove_outliers")
        IN  /\ \A p \in 1..NRows(b) :
                  \E i \in 1..NRows(a) :
                      /\ a.index[i] = b.index[p]
                      /\ a.rows[i] = b.rows[p]
                      /\ InsideAllFences(a, i)
            /\ \A i \in 1..NRows(a) :
                  ~InsideAllFences(a, i) =>
                      ~\E p \in 1..NRows(b) : b.index[p] = a.index[i]

\* C3's case: both columns have spread, a row outside the fence of the
\* first only and a row outside the fence of the second only were removed,
\* and a row survived.
C3_Witness ==
    /\ Returned("remove_outliers")
    /\ LET a == Arg("remove_outliers")
           b == Result("remove_outliers")
       IN  /\ FencedColumns(a) = {1, 2}
           /\ \E i \in 1..NRows(a) :
                 /\ ~InFence(Column(a, 1), a.rows[i][1])
                 /\ InFence(Column(a, 2), a.rows[i][2])
           /\ \E i \in 1..NRows(a) :
                 /\ InFence(Column(a, 1), a.rows[i][1])
                 /\ ~InFence(Column(a, 2), a.rows[i][2])
                 /\ ~IsNa(a.rows[i][2])
           /\ NRows(b) > 0

\* C2: remove_outliers raises no error and keeps every row that is inside
\* the fence of every numeric column with nonzero IQR (all rows when no
\* column has one), also on a frame remove_duplicates has just removed rows
\* from.
C2_KeepsRowsInsideFences ==
    Called("remove_outliers") =>
        /\ ~Raised("remove_outliers")
        /\ LET a == Arg("remove_outliers")
               b == Result("remove_outliers")
           IN  \A i \in 1..NRows(a) :
                  InsideAllFences(a, i) =>
                      \E p \in 1..NRows(b) :
                          b.index[p] = a.index[i] /\ b.rows[p] = a.rows[i]

\* The year the claim gives a row: the first 4 digits in a row of YEAR's
\* text, else the 4 digits after a "(" of the row's own MOVIES text, else
\* missing.
ClaimedYear(t, i) ==
    LET year == AsTypeStr(t.dtypes[Loc(t, YEAR)], t.rows[i][Loc(t, YEAR)])
        title == AsTypeStr(t.dtypes[Loc(t, MOVIES)], t.rows[i][Loc(t, MOVIES)])
    IN  IF ~IsNa(ExtractDigits(year)) THEN ToNumericCell(ExtractDigits(year))
        ELSE IF ~IsNa(ExtractParenDigits(title))
        THEN ToNumericCell(ExtractParenDigits(title))
        ELSE NaN

\* C4: after extract_year_info, YEAR_CLEANED of every row is the number of
\* the first run of 4 digits in the row's YEAR text; without one, the number
\* of the 4 digits after an opening parenthesis in the row's MOVIES text;
\* without that, missing.
C4_YearWithFallback ==
    Returned("extract_year_info") =>
        LET a == Arg("extract_year_info")
            b == Result("extract_year_info")
        IN  /\ Has(b, YEAR_CLEANED)
            /\ NRows(b) = NRows(a)
            /\ \A i \in 1..NRows(a) :
                  b.rows[i][Loc(b, YEAR_CLEANED)] = ClaimedYear(a, i)

\* C6: after encode_categorical, a non-numeric column other than MOVIES
\* with exactly one distinct value is gone; one with two or more is there
\* and holds non-negative integer codes, equal on two rows exactly when the
\* rows had the same original value; MOVIES and the numeric columns are as
\* they were, and so are the rows' number and labels.
C6_EncodedOrDropped ==
    Returned("encode_categorical") =>
        LET a == Arg("encode_categorical")
            b == Result("encode_categorical")
            distinct(j) == {a.rows[i][j] : i \in {i \in 1..NRows(a) : ~IsNa(a.rows[i][j])}}
            now(j) == Column(b, Loc(b, a.columns[j]))
        IN  /\ NRows(b) = NRows(a)
            /\ b.index = a.index
            /\ \A j \in 1..NCols(a) :
                  IF IsNumericDtype(a.dtypes[j]) \/ a.columns[j] = MOVIES
                  THEN Has(b, a.columns[j]) /\ now(j) = Column(a, j)
                  ELSE /\ Cardinality(distinct(j)) = 1 => ~Has(b, a.columns[j])
                       /\ Cardinality(distinct(j)) >= 2 =>
                             /\ Has(b, a.columns[j])
                             /\ \A i \in 1..NRows(a) :
                                   /\ now(j)[i].k = "num"
                                   /\ now(j)[i].d = 1 /\ now(j)[i].r = 1
                                   /\ now(j)[i].n >= 0
                             /\ \A i, h \in 1..NRows(a) :
                                   now(j)[i] = now(j)[h] <=> a.rows[i][j] = a.rows[h][j]

\* C6's case: a text column with two distinct texts and a gap has been
\* encoded, the codes following the order of the texts ("B" < "a" < "nan").
C6_Witness ==
    /\ Returned("encode_categorical")
    /\ Column(Arg("encode_categorical"), 2) = << Str(<< "a" >>), NaN, Str(<< "B" >>) >>
    /\ Has(Result("encode_categorical"), ONE_LINE_CLEANED)
    /\ Column(Result("encode_categorical"), 2)
          = << Number(1, 1, 1), Number(2, 1, 1), Number(0, 1, 1) >>

\* The names of a set of columns after clean_column_names
Cleaned(names) == {CleanName(n) : n \in names}

\* C1: in a run, after handle_missing_values every column of the input that
\* is one of RATING, VOTES, RunTime, Gross holds only numbers, no cell
\* missing, and every column that is one of MOVIES, YEAR, GENRE, ONE-LINE,
\* STARS has no cell missing.  (Stated for the columns handle_missing_values
\* does not drop, and for numeric columns that have a number to take the
\* median of.)
C1_NoMissingAfterHandler ==
    Returned("handle_missing_values") =>
        LET in == Arg("clean_column_names")
            b == Result("handle_missing_values")
            now(j) == Column(b, Loc(b, CleanName(in.columns[j])))
        IN  \A j \in 1..NCols(in) :
              /\ ( /\ CleanName(in.columns[j]) \in Cleaned(PotentialNumCols)
                   /\ \E i \in 1..NRows(in) : in.rows[i][j].k = "num" )
                 => /\ Has(b, CleanName(in.columns[j]))
                    /\ \A i \in 1..NRows(b) : now(j)[i].k = "num"
              /\ ( /\ CleanName(in.columns[j]) \in Cleaned(CatCols)
                   /\ Has(b, CleanName(in.columns[j])) )
                 => \A i \in 1..NRows(b) : ~IsNa(now(j)[i])

\* x and y are the same number.
SameNumber(x, y) ==
    /\ x.k = "num" /\ y.k = "num"
    /\ (x.n > 0) = (y.n > 0)
    /\ (x.n < 0) = (y.n < 0)
    /\ x.n * x.n * y.d * y.d * y.r = y.n * y.n * x.d * x.d * x.r

\* C5: in a run, scale_features leaves every column that encode_categorical
\* turned into integer codes as it is: the written table holds the encoder's
\* codes.
C5_EncodedColumnsNotScaled ==
    Returned("save_cleaned_data") =>
        LET a == Arg("encode_categorical")
            b == Result("encode_categorical")
            out == output[1]
            at(t, j) == CHOOSE h \in 1..Len(t.columns) : t.columns[h] = a.columns[j]
        IN  \A j \in 1..NCols(a) :
              ( /\ ~IsNumericDtype(a.dtypes[j]) /\ a.columns[j] # MOVIES
                /\ Has(b, a.columns[j]) )
              => \A i \in 1..NRows(b) :
                    SameNumber(out.rows[i][at(out, j)], b.rows[i][at(b, j)])

\* C8: the output file is written only after load_data and the seven
\* stages have returned, in main's order; when the input file does not
\* exist load_data raises before any stage runs; when load_data or a stage
\* raises, control goes to the except clause, which re-raises:
\* save_cleaned_data is not called and no output file is written.
C8_NoOutputOnError ==
    /\ Len(calls) <= Len(StageOrder)
    /\ \A i \in 1..Len(calls) : calls[i].stage = StageOrder[i]
    /\ output # << >> =>
          /\ err = "none"
          /\ \A i \in 1..Len(StageOrder) : Returned(StageOrder[i])
    /\ err # "none" <=> pc \in {"except", "raised"}
    /\ err # "none" => output = << >> /\ ~Called("save_cleaned_data")
    /\ (~source.exists /\ calls # << >>) =>
          err = "FileNotFoundError" /\ Len(calls) = 1
    /\ pc = "done" => output # << >>

\* C8's case: remove_outliers raised after five stages had returned, the
\* error has been re-raised and nothing was written.
C8_Witness ==
    /\ pc = "raised"
    /\ err = "IndexingError"
    /\ Raised("remove_outliers")
    /\ Returned("remove_duplicates")
    /\ output = << >>

\* C9: scale_features does not raise on a column without spread: a column
\* it scales whose values are all the same number has every value replaced
\* by 0, and the stage returns.
C9_ConstantColumnScalesToZero ==
    Called("scale_features") =>
        LET a == Arg("scale_features")
            b == Result("scale_features")
        IN  \A j \in 1..NCols(a) :
              ( /\ IsNumericDtype(a.dtypes[j])
                /\ ~EndsWith(a.columns[j], ENCODED_SUFFIX)
                /\ NRows(a) >= 1
                /\ \A i \in 1..NRows(a) :
                      a.rows[i][j].k = "num" /\ a.rows[i][j] = a.rows[1][j] )
              => /\ Returned("scale_features")
                 /\ NRows(b) = NRows(a)
                 /\ \A i \in 1..NRows(b) : b.rows[i][j] = Number(0, 1, 1)

\* C9's case: on a frame of three rows, a column of one repeated nonzero
\* number was scaled to 0 next to a column with spread.
C9_Witness ==
    /\ Returned("scale_features")
    /\ LET a == Arg("scale_features")
           b == Result("scale_features")
       IN  /\ NRows(a) = 3
           /\ \E j \in 1..NCols(a) :
                 /\ \A i \in 1..3 : a.rows[i][j] = Number(7, 1, 1)
                 /\ \A i \in 1..3 : b.rows[i][j] = Number(0, 1, 1)
           /\ \E j \in 1..NCols(a) : \E i \in 1..3 : b.rows[i][j].r > 1

====
